---- MODULE Spec2Model ----
(***************************************************************************)
(* A model of smb_tex: the texture package codec of src/src/texture.rs     *)
(* (read_texture_package, write_texture_package, from_directory) and the   *)
(* Extract command of src/src/main.rs.                                     *)
(*                                                                         *)
(* A byte buffer is a sequence of 0..255.  A u32 in flight is kept as the  *)
(* four bytes of its little-endian encoding (a "word"), so that products   *)
(* and sums keep their 32-bit width; a word is turned into a number only   *)
(* where it is below 2^31.                                                 *)
(***************************************************************************)
EXTENDS Integers, Sequences, FiniteSets, TLC

VARIABLES
    overflow_checks,  \* build profile: TRUE = debug (overflow panics), FALSE = release (wraps)
    pc,               \* position of the run
    tp,               \* the package in memory (a sequence of textures)
    buf,              \* the container bytes
    wres,             \* outcome of write_texture_package
    rres,             \* outcome of read_texture_package
    buf2,             \* outcome of writing the package that was read back
    codec,            \* one channel through the writer's and the reader's scaling
    dir,              \* directory entries given to from_directory
    fs,               \* files of the output directory of Extract
    dres,             \* outcome of from_directory
    emitted               \* number of textures Extract has emitted

vars == <<overflow_checks, pc, tp, buf, wres, rres, buf2, codec, dir, fs, dres, emitted>>

\* the state of the pixel, assembly and emission runs
sideVars == <<codec, dir, fs, dres, emitted>>

---------------------------------------------------------------------------
(* Bounds of the model *)

MaxTextures == 2
MaxEntries == 3

---------------------------------------------------------------------------
(* 32-bit arithmetic on little-endian words *)

\* the four little-endian bytes of an integer (two's complement when negative)
ToWord(n) == [k \in 1..4 |-> (n \div (256 ^ (k - 1))) % 256]

Fits31(w) == w[4] < 128

ToNat(w) == w[1] + 256 * w[2] + 65536 * w[3] + 16777216 * w[4]

\* an i32 field: the word read as two's complement
ToI32(w) == w[1] + 256 * w[2] + 65536 * w[3]
            + 16777216 * (IF w[4] < 128 THEN w[4] ELSE w[4] - 256)

\* a u32 held as an integer: from 2^31 on the value is kept as value - 2^32
\* (integers end at 2^31 - 1 here); ToWord gives back the same four bytes and
\* Hex8 the same eight digits
ToU32(w) == IF Fits31(w) THEN ToNat(w) ELSE ToI32(w)

\* column k (0-based) of the schoolbook product of two words
MulColumn(a, b, k) ==
    LET cols == {i \in 0..3 : k - i \in 0..3}
        RECURSIVE Sum(_)
        Sum(S) == IF S = {} THEN 0
                  ELSE LET i == CHOOSE j \in S : TRUE
                       IN a[i + 1] * b[k - i + 1] + Sum(S \ {i})
    IN Sum(cols)

RECURSIVE MulDigits(_, _, _, _)
MulDigits(a, b, k, carry) ==
    IF k = 8 THEN <<>>
    ELSE LET s == MulColumn(a, b, k) + carry
         IN <<s % 256>> \o MulDigits(a, b, k + 1, s \div 256)

\* u32 * u32: the wrapped product and whether the true product left 32 bits
MulU32(a, b) ==
    LET d == MulDigits(a, b, 0, 0)
    IN [value |-> [k \in 1..4 |-> d[k]],
        overflow |-> \E k \in 5..8 : d[k] # 0]

RECURSIVE AddDigits(_, _, _, _)
AddDigits(a, b, k, carry) ==
    IF k = 5 THEN <<carry>>
    ELSE LET s == a[k] + b[k] + carry
         IN <<s % 256>> \o AddDigits(a, b, k + 1, s \div 256)

\* u32 + u32: the wrapped sum and whether the true sum left 32 bits
AddU32(a, b) ==
    LET d == AddDigits(a, b, 1, 0)
    IN [value |-> [k \in 1..4 |-> d[k]], overflow |-> d[5] # 0]

---------------------------------------------------------------------------
(* Bit operations of the pixel codec (u16) *)

RECURSIVE BitAnd(_, _)
BitAnd(a, b) == IF a = 0 \/ b = 0 THEN 0
                ELSE (a % 2) * (b % 2) + 2 * BitAnd(a \div 2, b \div 2)

RECURSIVE BitOr(_, _)
BitOr(a, b) == IF a = 0 THEN b ELSE IF b = 0 THEN a
               ELSE (IF a % 2 = 1 \/ b % 2 = 1 THEN 1 ELSE 0)
                    + 2 * BitOr(a \div 2, b \div 2)

Shr(a, n) == a \div (2 ^ n)

Shl16(a, n) == (a * (2 ^ n)) % 65536

---------------------------------------------------------------------------
(* TextureFormat and data_size *)

Formats == {"R5G5B5A1", "R4G4B4A4", "R5G6B5", "R8G8B8A8"}

\* the discriminants with R8G8B8A8 numbered 4, one too far
Repr_RgbaIsFour(format) ==
    CASE format = "R5G5B5A1" -> 0
      [] format = "R4G4B4A4" -> 1
      [] format = "R5G6B5" -> 2
      [] format = "R8G8B8A8" -> 4

\* #[brw(repr = u32)]: the discriminant written for a format
Repr(format) ==
    CASE format = "R5G5B5A1" -> 0
      [] format = "R4G4B4A4" -> 1
      [] format = "R5G6B5" -> 2
      [] format = "R8G8B8A8" -> 3

\* reading the enum: a word that is no discriminant matches no variant
HasVariant(w) == \E f \in Formats : ToWord(Repr(f)) = w

FromRepr(w) == CHOOSE f \in Formats : ToWord(Repr(f)) = w

bpp(format) ==
    CASE format = "R5G5B5A1" -> 2
      [] format = "R4G4B4A4" -> 2
      [] format = "R5G6B5" -> 2
      [] format = "R8G8B8A8" -> 4

\* width * height * bpp in u32, left to right; overflow tells that one of the
\* two multiplications left 32 bits (a panic with overflow checks, a wrap without)
data_size(format, width, height) ==
    LET m1 == MulU32(width, height)
        m2 == MulU32(m1.value, ToWord(bpp(format)))
    IN [value |-> m2.value, overflow |-> m1.overflow \/ m2.overflow]

---------------------------------------------------------------------------
(* Rasters: RgbaImage as width, height and the flat row-major RGBA bytes *)

PixelAt(img, x, y) ==
    LET o == (y * img.width + x) * 4
    IN <<img.data[o + 1], img.data[o + 2], img.data[o + 3], img.data[o + 4]>>

\* no flip: the rows kept in stored order
flipv_Unflipped(img) ==
    [width |-> img.width, height |-> img.height,
     data |-> [k \in 1..(img.width * img.height * 4) |-> img.data[k]]]

\* DynamicImage::flipv: output row y is input row height-1-y
flipv(img) ==
    [width |-> img.width, height |-> img.height,
     data |-> [k \in 1..(img.width * img.height * 4) |->
                 LET p == (k - 1) \div 4
                     c == (k - 1) % 4
                     y == p \div img.width
                     x == p % img.width
                 IN img.data[((img.height - 1 - y) * img.width + x) * 4 + c + 1]]]

\* ImageBuffer::from_vec: None when the container is shorter than
\* width * height * channels (computed without wrapping)
FromVecFits(width, height, channels, len) ==
    LET m1 == MulU32(width, height)
        m2 == MulU32(m1.value, ToWord(channels))
    IN /\ ~m1.overflow
       /\ ~m2.overflow
       /\ Fits31(m2.value)
       /\ ToNat(m2.value) <= len

---------------------------------------------------------------------------
(* Pixel codec *)

U16LE(v) == <<v % 256, v \div 256>>

\* the writer's scaling of one 8-bit channel to max (0x1F, 0xF, 0x3F, 0x1)
EncodeChannel(x, max) == (x * max) \div 255

\* the reader's scaling of one packed channel back to 8 bits
DecodeChannel(q, max) == (q * 255) \div max

\* write_texture_package, the match on format for one pixel
EncodePixel(format, pix) ==
    CASE format = "R5G5B5A1" ->
           U16LE(BitOr(BitOr(Shl16(EncodeChannel(pix[1], 31), 11),
                             Shl16(EncodeChannel(pix[2], 31), 6)),
                       BitOr(Shl16(EncodeChannel(pix[3], 31), 1),
                             Shl16(EncodeChannel(pix[4], 1), 0))))
      [] format = "R4G4B4A4" ->
           U16LE(BitOr(BitOr(Shl16(EncodeChannel(pix[1], 15), 12),
                             Shl16(EncodeChannel(pix[2], 15), 8)),
                       BitOr(Shl16(EncodeChannel(pix[3], 15), 4),
                             Shl16(EncodeChannel(pix[4], 15), 0))))
      [] format = "R8G8B8A8" -> <<pix[1], pix[2], pix[3], pix[4]>>
      [] format = "R5G6B5" ->
           U16LE(BitOr(BitOr(Shl16(EncodeChannel(pix[1], 31), 11),
                             Shl16(EncodeChannel(pix[2], 63), 5)),
                       Shl16(EncodeChannel(pix[3], 31), 0)))

\* the unpacking with the green of R5G5B5A1 taken from bit 5, not bit 6
DecodeShort_GreenFromBit5(format, short) ==
    CASE format = "R5G5B5A1" ->
           <<DecodeChannel(BitAnd(Shr(short, 11), 31), 31),
             DecodeChannel(BitAnd(Shr(short, 5), 31), 31),
             DecodeChannel(BitAnd(Shr(short, 1), 31), 31),
             BitAnd(Shr(short, 0), 1) * 255>>
      [] format = "R4G4B4A4" ->
           <<DecodeChannel(BitAnd(Shr(short, 12), 15), 15),
             DecodeChannel(BitAnd(Shr(short, 8), 15), 15),
             DecodeChannel(BitAnd(Shr(short, 4), 15), 15),
             DecodeChannel(BitAnd(Shr(short, 0), 15), 15)>>
      [] format = "R5G6B5" ->
           <<DecodeChannel(BitAnd(Shr(short, 11), 31), 31),
             DecodeChannel(BitAnd(Shr(short, 5), 63), 63),
             DecodeChannel(BitAnd(Shr(short, 0), 31), 31),
             255>>

\* read_texture_data, the match on format for one 16-bit word; R5G6B5 yields
\* an RGB pixel that into_rgba8 completes with alpha 255
DecodeShort(format, short) ==
    CASE format = "R5G5B5A1" ->
           <<DecodeChannel(BitAnd(Shr(short, 11), 31), 31),
             DecodeChannel(BitAnd(Shr(short, 6), 31), 31),
             DecodeChannel(BitAnd(Shr(short, 1), 31), 31),
             BitAnd(Shr(short, 0), 1) * 255>>
      [] format = "R4G4B4A4" ->
           <<DecodeChannel(BitAnd(Shr(short, 12), 15), 15),
             DecodeChannel(BitAnd(Shr(short, 8), 15), 15),
             DecodeChannel(BitAnd(Shr(short, 4), 15), 15),
             DecodeChannel(BitAnd(Shr(short, 0), 15), 15)>>
      [] format = "R5G6B5" ->
           <<DecodeChannel(BitAnd(Shr(short, 11), 31), 31),
             DecodeChannel(BitAnd(Shr(short, 5), 63), 63),
             DecodeChannel(BitAnd(Shr(short, 0), 31), 31),
             255>>

\* the payload bytes turned into the flat RGBA container, in stored order
\* (bytemuck::cast_slice on a little-endian target for the 16-bit formats)
RECURSIVE DecodePixels(_, _, _)
DecodePixels(format, data, k) ==
    IF format = "R8G8B8A8" THEN data
    ELSE IF k + 1 > Len(data) THEN <<>>
    ELSE DecodeShort(format, data[k] + 256 * data[k + 1])
         \o DecodePixels(format, data, k + 2)

---------------------------------------------------------------------------
(* write_texture_package *)

TEX_HEADER_SIZE == 36

TEXTURES_PTR == 32

Zeros(n) == [k \in 1..n |-> 0]

\* std::io::Cursor<&mut Vec<u8>>: write_all at the position, the gap up to the
\* position zero-filled first; nothing is written, and nothing padded, for no bytes
CursorWrite(cur, bytes) ==
    IF Len(bytes) = 0 THEN cur
    ELSE LET padded == IF cur.pos > Len(cur.buf)
                       THEN cur.buf \o Zeros(cur.pos - Len(cur.buf))
                       ELSE cur.buf
             end == cur.pos + Len(bytes)
             len == IF end > Len(padded) THEN end ELSE Len(padded)
         IN [buf |-> [k \in 1..len |->
                        IF k > cur.pos /\ k <= end THEN bytes[k - cur.pos]
                        ELSE padded[k]],
             pos |-> end]

\* Seek::seek(SeekFrom::Start(pos)): moves the position only
CursorSeek(cur, pos) == [buf |-> cur.buf, pos |-> pos]

\* TextureHeader::write_le: eight little-endian 32-bit fields
TextureHeaderBytes(texture) ==
    ToWord(texture.meta.id) \o ToWord(texture.data.width) \o ToWord(texture.data.height)
    \o ToWord(texture.meta.unk_c) \o ToWord(texture.meta.unk_10)
    \o ToWord(texture.meta.unk_14) \o ToWord(texture.meta.unk_18)
    \o ToWord(Repr(texture.meta.texture_format))

\* the first loop: one header record and data_offset per texture, data_offset
\* advanced by the texture's data_size.  panic: an overflow with overflow checks
RECURSIVE WriteHeaders(_, _, _, _, _)
WriteHeaders(textures, i, data_offset, cur, checks) ==
    IF i > Len(textures) THEN [panic |-> FALSE, cur |-> cur]
    ELSE LET texture == textures[i]
             size == data_size(texture.meta.texture_format,
                               ToWord(texture.data.width), ToWord(texture.data.height))
             next == AddU32(data_offset, size.value)
             cur1 == CursorWrite(CursorWrite(cur, TextureHeaderBytes(texture)), data_offset)
         IN IF checks /\ size.overflow THEN [panic |-> TRUE, cur |-> cur]
            ELSE IF checks /\ next.overflow THEN [panic |-> TRUE, cur |-> cur1]
            ELSE WriteHeaders(textures, i + 1, next.value, cur1, checks)

\* for pix in row
RECURSIVE WriteRow(_, _, _, _)
WriteRow(texture, y, x, cur) ==
    IF x >= texture.data.width THEN cur
    ELSE WriteRow(texture, y, x + 1,
                  CursorWrite(cur, EncodePixel(texture.meta.texture_format,
                                               PixelAt(texture.data, x, y))))

\* for row in data.rows().rev(): rows from the last to the first
RECURSIVE WriteRows(_, _, _)
WriteRows(texture, y, cur) ==
    IF y < 0 THEN cur
    ELSE WriteRows(texture, y - 1, WriteRow(texture, y, 0, cur))

\* the second loop: the payloads in texture order
RECURSIVE WritePayloads(_, _, _)
WritePayloads(textures, i, cur) ==
    IF i > Len(textures) THEN cur
    ELSE WritePayloads(textures, i + 1,
                       WriteRows(textures[i], textures[i].data.height - 1, cur))

\* the header, the seek to 0x20 and the first loop
write_header_table(textures, checks) ==
    LET count == ToWord(Len(textures))
        table == MulU32(count, ToWord(TEX_HEADER_SIZE))
        first == AddU32(ToWord(TEXTURES_PTR), table.value)
        cur0 == CursorWrite([buf |-> <<>>, pos |-> 0], count \o ToWord(TEXTURES_PTR))
        cur1 == CursorSeek(cur0, TEXTURES_PTR)
    IN IF checks /\ (table.overflow \/ first.overflow)
       THEN [panic |-> TRUE, cur |-> [buf |-> <<>>, pos |-> 0]]
       ELSE WriteHeaders(textures, 1, first.value, cur1, checks)

write_texture_package(data, checks) ==
    LET h == write_header_table(data, checks)
    IN IF h.panic THEN [outcome |-> "Panic", buf |-> <<>>]
       ELSE [outcome |-> "Ok", buf |-> WritePayloads(data, 1, h.cur).buf]

---------------------------------------------------------------------------
(* read_texture_package *)

\* a cursor position from a 32-bit pointer.  Every position past the end of the
\* buffer behaves alike (any read of at least one byte fails there), so those
\* are kept as the first position past the end
SeekPos(b, w) ==
    IF Fits31(w) /\ ToNat(w) <= Len(b) THEN ToNat(w) ELSE Len(b) + 1

\* read_exact of n bytes at pos succeeds: always for no bytes, else when the
\* bytes are there
CanRead(b, pos, n) == n = 0 \/ (pos <= Len(b) /\ n <= Len(b) - pos)

Bytes(b, pos, n) == SubSeq(b, pos + 1, pos + n)

WordAt(b, pos) == Bytes(b, pos, 4)

Failure(kind, err, derefs) ==
    [outcome |-> kind, err |-> err, textures |-> <<>>, derefs |-> derefs]

\* read_texture_data at the payload pointer, then the vertical flip
read_texture_data(b, pos, width, height, format, checks) ==
    LET size == data_size(format, width, height)
        n == ToNat(size.value)
        data == Bytes(b, pos, n)
        pixels == DecodePixels(format, data, 1)
        channels == IF format = "R5G6B5" THEN 3 ELSE 4
        stored == IF format = "R5G6B5" THEN (Len(pixels) \div 4) * 3 ELSE Len(pixels)
    IN IF checks /\ size.overflow THEN [outcome |-> "Panic", err |-> "overflow"]
       ELSE IF ~(Fits31(size.value) /\ CanRead(b, pos, n))
       THEN [outcome |-> "Err", err |-> "Io"]
       ELSE IF ~FromVecFits(width, height, channels, stored)
       THEN [outcome |-> "Panic", err |-> "unwrap"]
       ELSE [outcome |-> "Ok",
             image |-> flipv([width |-> ToNat(width), height |-> ToNat(height),
                              data |-> pixels])]

\* TextureHeader::meta
meta(b, pos) ==
    [id |-> ToU32(WordAt(b, pos)),
     unk_c |-> ToI32(WordAt(b, pos + 12)),
     unk_10 |-> ToI32(WordAt(b, pos + 16)),
     unk_14 |-> ToI32(WordAt(b, pos + 20)),
     unk_18 |-> ToI32(WordAt(b, pos + 24)),
     texture_format |-> FromRepr(WordAt(b, pos + 28))]

\* Texture::read at pos: the header record field by field, the format checked
\* as it is read, then the payload pointer followed
ReadTexture(b, pos, checks) ==
    IF ~CanRead(b, pos, 32) THEN [outcome |-> "Err", err |-> "Io", deref |-> FALSE]
    ELSE IF ~HasVariant(WordAt(b, pos + 28))
    THEN [outcome |-> "Err", err |-> "NoVariantMatch", deref |-> FALSE]
    ELSE IF ~CanRead(b, pos + 32, 4) THEN [outcome |-> "Err", err |-> "Io", deref |-> FALSE]
    ELSE LET m == meta(b, pos)
             r == read_texture_data(b, SeekPos(b, WordAt(b, pos + 32)),
                                    WordAt(b, pos + 4), WordAt(b, pos + 8),
                                    m.texture_format, checks)
         IN IF r.outcome = "Ok"
            THEN [outcome |-> "Ok", texture |-> [meta |-> m, data |-> r.image], deref |-> TRUE]
            ELSE [outcome |-> r.outcome, err |-> r.err, deref |-> TRUE]

\* Vec<Texture> with count = texture_count: records one after the other, the
\* first failure ending the parse
RECURSIVE ReadTextures(_, _, _, _, _, _, _)
ReadTextures(b, pos, i, count, acc, derefs, checks) ==
    IF Fits31(count) /\ ToNat(count) = i
    THEN [outcome |-> "Ok", err |-> "", textures |-> acc, derefs |-> derefs]
    ELSE LET r == ReadTexture(b, pos, checks)
             d == IF r.deref THEN derefs \cup {i} ELSE derefs
         IN IF r.outcome = "Ok"
            THEN ReadTextures(b, pos + TEX_HEADER_SIZE, i + 1, count,
                              Append(acc, r.texture), d, checks)
            ELSE Failure(r.outcome, r.err, d)

\* TexturePackage::read: texture_count, then the table pointer followed.
\* outcome: "Ok" with the textures, "Err" (err "Io": the bytes are not there,
\* "NoVariantMatch": no format has that discriminant) or "Panic"
read_texture_package(b, checks) ==
    IF ~CanRead(b, 0, 4) \/ ~CanRead(b, 4, 4) THEN Failure("Err", "Io", {})
    ELSE ReadTextures(b, SeekPos(b, WordAt(b, 4)), 0, WordAt(b, 0), <<>>, {}, checks)

---------------------------------------------------------------------------
(* Inputs *)

\* pixels of the sample rasters: values at and around the quantisation steps
Palette ==
    << <<0, 0, 0, 0>>, <<255, 255, 255, 255>>, <<9, 41, 128, 254>>,
       <<200, 100, 50, 1>>, <<17, 85, 4, 255>> >>

\* the w x h raster whose pixel number p (row-major) is Palette[p mod 5]
Raster(w, h) ==
    [width |-> w, height |-> h,
     data |-> [k \in 1..(w * h * 4) |->
                 Palette[(((k - 1) \div 4) % Len(Palette)) + 1][((k - 1) % 4) + 1]]]

\* TextureMeta of the texture at place i of a package, but for the format
MetaAt(i, format) ==
    IF i % 2 = 1
    THEN [id |-> 1, unk_c |-> -1, unk_10 |-> 0, unk_14 |-> 2147483647,
          unk_18 |-> -2147483647, texture_format |-> format]
    ELSE [id |-> 168496141, unk_c |-> 5, unk_10 |-> -256, unk_14 |-> 65536,
          unk_18 |-> 1, texture_format |-> format]

RasterDims == {<<2, 0>>, <<1, 2>>, <<2, 1>>, <<2, 2>>}

\* packages of n textures: any format and any of the dimensions at each place
PackagesOver(dims, n) ==
    {[i \in 1..n |-> [meta |-> MetaAt(i, c[i][1]),
                      data |-> Raster(c[i][2][1], c[i][2][2])]] :
        c \in [1..n -> Formats \X dims]}

NoResult == [outcome |-> "None"]

Idle ==
    /\ codec = NoResult
    /\ dir = <<>>
    /\ fs = {}
    /\ dres = NoResult
    /\ emitted = 0

---------------------------------------------------------------------------
(* Spec: a package written, read back and written again *)

Init ==
    /\ overflow_checks \in BOOLEAN
    /\ pc = "start"
    /\ tp \in UNION {PackagesOver(RasterDims, n) : n \in 0..MaxTextures}
    /\ buf = <<>>
    /\ wres = NoResult
    /\ rres = NoResult
    /\ buf2 = NoResult
    /\ Idle

\* texture::write_texture_package(&tp)
Write ==
    /\ pc = "start"
    /\ wres' = write_texture_package(tp, overflow_checks)
    /\ buf' = wres'.buf
    /\ pc' = "written"
    /\ UNCHANGED <<overflow_checks, tp, rres, buf2, sideVars>>

\* texture::read_texture_package(&data)
Read ==
    /\ pc \in {"written", "patched"}
    /\ wres.outcome = "Ok"
    /\ rres' = read_texture_package(buf, overflow_checks)
    /\ pc' = "read"
    /\ UNCHANGED <<overflow_checks, tp, buf, wres, buf2, sideVars>>

\* the package that was read, written again
Rewrite ==
    /\ pc = "read"
    /\ rres.outcome = "Ok"
    /\ buf2' = write_texture_package(rres.textures, overflow_checks)
    /\ pc' = "rewritten"
    /\ UNCHANGED <<overflow_checks, tp, buf, wres, rres, sideVars>>

Next == Write \/ Read \/ Rewrite

Spec == Init /\ [][Next]_vars

---------------------------------------------------------------------------
(* SpecRead: a written container damaged in one place, then read *)

\* the dimensions of the texture at place i of the containers that get damaged
ReadDimsAt(i) == IF i % 2 = 1 THEN <<2, 2>> ELSE <<1, 3>>

ReadPackages(n) ==
    {[i \in 1..n |-> [meta |-> MetaAt(i, f[i]),
                      data |-> Raster(ReadDimsAt(i)[1], ReadDimsAt(i)[2])]] :
        f \in [1..n -> Formats]}

InitRead ==
    /\ overflow_checks \in BOOLEAN
    /\ pc = "start"
    /\ tp \in UNION {ReadPackages(n) : n \in 0..MaxTextures}
    /\ buf = <<>>
    /\ wres = NoResult
    /\ rres = NoResult
    /\ buf2 = NoResult
    /\ Idle

\* the buffer with the bytes at pos.. replaced
Patched(b, pos, bytes) ==
    [k \in 1..Len(b) |-> IF k > pos /\ k <= pos + Len(bytes) THEN bytes[k - pos] ELSE b[k]]

\* places where a container gets cut
TruncationPoints == {0, 3, 4, 7, 8, 31, 32, 50, 64, 67, 68, 71, 104}

\* values put into a 32-bit field
PatchValues == {0, 4, 256, 1073741824, 2147483647}

\* values put into a 16-bit pixel slot
ShortSamples == {65535, 32769, 2114, 63519, 2016}

\* offsets of the fields of a header record that get patched:
\* width, height, texture_format, the payload pointer
PatchedFields == {4, 8, 28, 32}

\* the input is a prefix of a written container
Truncate ==
    /\ pc = "written"
    /\ wres.outcome = "Ok"
    /\ \E n \in (TruncationPoints \cup {Len(buf) - 1}) \cap (0..(Len(buf) - 1)) :
          buf' = SubSeq(buf, 1, n)
    /\ pc' = "patched"
    /\ UNCHANGED <<overflow_checks, tp, wres, rres, buf2, sideVars>>

\* the input has another texture_count, table pointer or header field
PatchWord ==
    /\ pc = "written"
    /\ wres.outcome = "Ok"
    /\ \E pos \in {0, 4} \cup {TEXTURES_PTR + TEX_HEADER_SIZE * (i - 1) + f :
                                 i \in 1..Len(tp), f \in PatchedFields},
          v \in PatchValues :
          /\ pos + 4 <= Len(buf)
          /\ buf' = Patched(buf, pos, ToWord(v))
          /\ buf' # buf
    /\ pc' = "patched"
    /\ UNCHANGED <<overflow_checks, tp, wres, rres, buf2, sideVars>>

\* the input has another stored pixel: slot k of the payload of texture i
PatchPixel ==
    /\ pc = "written"
    /\ wres.outcome = "Ok"
    /\ \E i \in 1..Len(tp), v \in ShortSamples :
          \E k \in 0..(tp[i].data.width * tp[i].data.height - 1) :
             LET size == bpp(tp[i].meta.texture_format)
                 ptr == ToNat(WordAt(buf, TEXTURES_PTR + TEX_HEADER_SIZE * (i - 1) + 32))
                 bytes == IF size = 2 THEN U16LE(v) ELSE U16LE(v) \o U16LE(65535 - v)
             IN /\ buf' = Patched(buf, ptr + k * size, bytes)
                /\ buf' # buf
    /\ pc' = "patched"
    /\ UNCHANGED <<overflow_checks, tp, wres, rres, buf2, sideVars>>

NextRead == Write \/ Truncate \/ PatchWord \/ PatchPixel \/ Read

SpecRead == InitRead /\ [][NextRead]_vars

---------------------------------------------------------------------------
(* SpecSize: the writer's size arithmetic on rasters too large to spell out *)

\* width and height of the rasters; the pixels are left out, the first loop of
\* write_texture_package reads none
SizeDims ==
    {<<1, 1>>, <<3, 0>>, <<32768, 16384>>, <<32768, 32768>>, <<65536, 16384>>,
     <<65536, 65536>>}

SizePackages(n) ==
    {[i \in 1..n |-> [meta |-> MetaAt(i, c[i][1]),
                      data |-> [width |-> c[i][2][1], height |-> c[i][2][2]]]] :
        c \in [1..n -> Formats \X SizeDims]}

InitSize ==
    /\ overflow_checks \in BOOLEAN
    /\ pc = "start"
    /\ tp \in UNION {SizePackages(n) : n \in 0..MaxTextures}
    /\ buf = <<>>
    /\ wres = NoResult
    /\ rres = NoResult
    /\ buf2 = NoResult
    /\ Idle

\* write_texture_package up to the assert: the second loop only appends the
\* pixels and returns Ok(buf)
WriteSizes ==
    /\ pc = "start"
    /\ LET h == write_header_table(tp, overflow_checks)
       IN /\ wres' = IF h.panic THEN [outcome |-> "Panic", err |-> "overflow"]
                     ELSE [outcome |-> "Ok", err |-> ""]
          /\ buf' = h.cur.buf
    /\ pc' = "sized"
    /\ UNCHANGED <<overflow_checks, tp, rres, buf2, sideVars>>

NextSize == WriteSizes

SpecSize == InitSize /\ [][NextSize]_vars

---------------------------------------------------------------------------
(* SpecCodec: one pixel through the writer's packing and the reader's unpacking *)

Packed == {"R5G5B5A1", "R4G4B4A4", "R5G6B5"}

\* the largest packed value of channel c (1 = R .. 4 = A); 0: the format has
\* no such channel
ChannelMax(format, c) ==
    CASE format = "R5G5B5A1" -> IF c = 4 THEN 1 ELSE 31
      [] format = "R4G4B4A4" -> 15
      [] format = "R5G6B5" -> IF c = 4 THEN 0 ELSE IF c = 2 THEN 63 ELSE 31

InitCodec ==
    /\ overflow_checks \in BOOLEAN
    /\ pc = "start"
    /\ tp = <<>>
    /\ buf = <<>>
    /\ wres = NoResult
    /\ rres = NoResult
    /\ buf2 = NoResult
    /\ \E format \in Packed, c \in 1..4, x \in 0..255, rest \in {0, 255} :
          /\ ChannelMax(format, c) # 0
          /\ codec = [outcome |-> "Pixel", format |-> format, channel |-> c,
                      pix |-> [k \in 1..4 |-> IF k = c THEN x ELSE rest]]
    /\ dir = <<>>
    /\ fs = {}
    /\ dres = NoResult
    /\ emitted = 0

\* the writer packs the pixel
EncodeOne ==
    /\ pc = "start"
    /\ codec' = [codec EXCEPT !.outcome = "Encoded",
                              !.pix = EncodePixel(codec.format, codec.pix)]
    /\ buf' = codec'.pix
    /\ wres' = [outcome |-> "Pixel", pix |-> codec.pix]
    /\ pc' = "encoded"
    /\ UNCHANGED <<overflow_checks, tp, rres, buf2, dir, fs, dres, emitted>>

\* the reader unpacks the word
DecodeOne ==
    /\ pc = "encoded"
    /\ codec' = [codec EXCEPT !.outcome = "Decoded",
                              !.pix = DecodeShort(codec.format, buf[1] + 256 * buf[2])]
    /\ pc' = "decoded"
    /\ UNCHANGED <<overflow_checks, tp, buf, wres, rres, buf2, dir, fs, dres, emitted>>

NextCodec == EncodeOne \/ DecodeOne

SpecCodec == InitCodec /\ [][NextCodec]_vars

---------------------------------------------------------------------------
(* Files: the sidecar text and the image file, as what they hold *)

\* serde_json::to_string_pretty(&meta): the fields in declaration order, the
\* format by its variant name
ToJson(m) ==
    [kind |-> "json",
     fields |-> << <<"id", m.id>>, <<"unk_c", m.unk_c>>, <<"unk_10", m.unk_10>>,
                   <<"unk_14", m.unk_14>>, <<"unk_18", m.unk_18>>,
                   <<"texture_format", m.texture_format>> >>]

\* serde_json::from_slice::<TextureMeta>
FromJson(c) ==
    [id |-> c.fields[1][2], unk_c |-> c.fields[2][2], unk_10 |-> c.fields[3][2],
     unk_14 |-> c.fields[4][2], unk_18 |-> c.fields[5][2],
     texture_format |-> c.fields[6][2]]

\* RgbaImage::save to a .png path
ToPng(img) == [kind |-> "png", width |-> img.width, height |-> img.height, rgba |-> img.data]

\* image::open(path)?.into_rgba8()
FromPng(c) == [width |-> c.width, height |-> c.height, data |-> c.rgba]

Garbage == [kind |-> "garbage"]

---------------------------------------------------------------------------
(* SpecDir: TexturePackage::from_directory *)

Stems == {"a", "b"}

\* entries a directory may hold: a subdirectory or a file of any name; a file
\* holds what its extension promises or something else
DirEntries ==
    {[stem |-> st, ext |-> e, is_dir |-> TRUE, content |-> Garbage] :
        st \in Stems, e \in {"png", "json", "txt"}}
    \cup {[stem |-> st, ext |-> e, is_dir |-> FALSE, content |-> Garbage] :
        st \in Stems, e \in {"png", "json", "txt"}}
    \cup {[stem |-> st, ext |-> "png", is_dir |-> FALSE,
           content |-> ToPng(Raster(1, IF st = "a" THEN 1 ELSE 2))] : st \in Stems}
    \cup {[stem |-> st, ext |-> "json", is_dir |-> FALSE,
           content |-> ToJson(MetaAt(IF st = "a" THEN 1 ELSE 2, "R4G4B4A4"))] :
        st \in Stems}

\* is_file in place of exists: a directory of that name does not count
Exists_IsFile(items, stem, ext) ==
    \E k \in 1..Len(items) :
        items[k].stem = stem /\ items[k].ext = ext /\ ~items[k].is_dir

\* meta_path.exists(): some entry, file or directory, has that name
Exists(items, stem, ext) ==
    \E k \in 1..Len(items) : items[k].stem = stem /\ items[k].ext = ext

EntryNamed(items, stem, ext) ==
    items[CHOOSE k \in 1..Len(items) : items[k].stem = stem /\ items[k].ext = ext]

\* the loop over read_dir, in the order the file system yields the entries
RECURSIVE from_directory(_, _, _)
from_directory(items, i, textures) ==
    IF i > Len(items) THEN [outcome |-> "Ok", err |-> "", textures |-> textures]
    ELSE LET item == items[i]
         IN IF item.is_dir THEN from_directory(items, i + 1, textures)
            ELSE IF item.ext # "png" THEN from_directory(items, i + 1, textures)
            ELSE IF ~Exists(items, item.stem, "json")
            THEN [outcome |-> "Err", err |-> "MissingMeta", textures |-> <<>>]
            ELSE LET sidecar == EntryNamed(items, item.stem, "json")
                 IN IF sidecar.is_dir
                    THEN [outcome |-> "Err", err |-> "Io", textures |-> <<>>]
                    ELSE IF sidecar.content.kind # "json"
                    THEN [outcome |-> "Err", err |-> "Json", textures |-> <<>>]
                    ELSE IF item.content.kind # "png"
                    THEN [outcome |-> "Err", err |-> "Image", textures |-> <<>>]
                    ELSE from_directory(items, i + 1,
                            Append(textures, [meta |-> FromJson(sidecar.content),
                                              data |-> FromPng(item.content)]))

InitDir ==
    /\ overflow_checks \in BOOLEAN
    /\ pc = "listing"
    /\ tp = <<>>
    /\ buf = <<>>
    /\ wres = NoResult
    /\ rres = NoResult
    /\ buf2 = NoResult
    /\ Idle

\* the directory holds one more entry, which the file system lists last
AddEntry ==
    /\ pc = "listing"
    /\ Len(dir) < MaxEntries
    /\ \E e \in DirEntries :
          /\ \A k \in 1..Len(dir) : dir[k].stem # e.stem \/ dir[k].ext # e.ext
          /\ dir' = Append(dir, e)
    /\ UNCHANGED <<overflow_checks, pc, tp, buf, wres, rres, buf2, codec, fs, dres, emitted>>

\* TexturePackage::from_directory(&path)
FromDirectory ==
    /\ pc = "listing"
    /\ dres' = from_directory(dir, 1, <<>>)
    /\ pc' = "assembled"
    /\ UNCHANGED <<overflow_checks, tp, buf, wres, rres, buf2, codec, dir, fs, emitted>>

NextDir == AddEntry \/ FromDirectory

SpecDir == InitDir /\ [][NextDir]_vars

---------------------------------------------------------------------------
(* SpecExtract: the Extract command writing a package into a directory *)

HexDigits == <<"0", "1", "2", "3", "4", "5", "6", "7", "8", "9",
               "a", "b", "c", "d", "e", "f">>

\* format!("{:08x}", id)
Hex8(id) == [k \in 1..8 |-> HexDigits[((id \div (16 ^ (8 - k))) % 16) + 1]]

\* create_new in place of create: a file that is there is kept
FsWrite_KeepFirst(files, name, content) ==
    IF \E f \in files : f.name = name THEN files
    ELSE files \cup {[name |-> name, content |-> content]}

\* std::fs::write and save: the file of that name is created or replaced
FsWrite(files, name, content) ==
    {f \in files : f.name # name} \cup {[name |-> name, content |-> content]}

ExtractIds == {1, 171, 168496141}

\* packages of n textures with ids that may repeat; the raster of a place is
\* its own (place i is 1 x i)
ExtractPackages(n) ==
    {[i \in 1..n |-> [meta |-> [MetaAt(i, c[i][2]) EXCEPT !.id = c[i][1]],
                      data |-> Raster(1, i)]] :
        c \in [1..n -> ExtractIds \X Formats]}

InitExtract ==
    /\ overflow_checks \in BOOLEAN
    /\ pc = "extract"
    /\ tp \in UNION {ExtractPackages(n) : n \in 0..MaxTextures}
    /\ buf = <<>>
    /\ wres = NoResult
    /\ rres = NoResult
    /\ buf2 = NoResult
    /\ Idle

\* one turn of the loop over tp.textures: the image, then the sidecar
EmitTexture ==
    /\ pc = "extract"
    /\ emitted < Len(tp)
    /\ LET tex == tp[emitted + 1]
           stem == Hex8(tex.meta.id)
       IN fs' = FsWrite(FsWrite(fs, <<stem, "png">>, ToPng(tex.data)),
                        <<stem, "json">>, ToJson(tex.meta))
    /\ emitted' = emitted + 1
    /\ UNCHANGED <<overflow_checks, pc, tp, buf, wres, rres, buf2, codec, dir, dres>>

\* the loop is over
ExtractDone ==
    /\ pc = "extract"
    /\ emitted = Len(tp)
    /\ pc' = "extracted"
    /\ UNCHANGED <<overflow_checks, tp, buf, wres, rres, buf2, sideVars>>

NextExtract == EmitTexture \/ ExtractDone

SpecExtract == InitExtract /\ [][NextExtract]_vars

---------------------------------------------------------------------------
(* Properties of the round trip (Spec) *)

AllRgba(p) == \A i \in 1..Len(p) : p[i].meta.texture_format = "R8G8B8A8"

SamePixels(a, b) ==
    /\ a.width = b.width
    /\ a.height = b.height
    /\ \A x \in 0..(a.width - 1), y \in 0..(a.height - 1) : PixelAt(a, x, y) = PixelAt(b, x, y)

\* C1: a package whose textures are all R8G8B8A8 is read back from its written
\* bytes with the same textures in the same order, the same metadata and the
\* same pixels
C1_RoundTripRgba ==
    (pc \in {"read", "rewritten"} /\ AllRgba(tp)) =>
        /\ wres.outcome = "Ok"
        /\ rres.outcome = "Ok"
        /\ Len(rres.textures) = Len(tp)
        /\ \A i \in 1..Len(tp) :
              /\ rres.textures[i].meta = tp[i].meta
              /\ SamePixels(rres.textures[i].data, tp[i].data)

\* two R8G8B8A8 textures, the first with two different rows, were read back
C1_Witness ==
    /\ pc = "read"
    /\ rres.outcome = "Ok"
    /\ Len(tp) = 2
    /\ AllRgba(tp)
    /\ tp[1].data.width = 2
    /\ tp[1].data.height = 2
    /\ PixelAt(tp[1].data, 0, 0) # PixelAt(tp[1].data, 0, 1)
    /\ tp[2].data.height = 0

\* C2: the bytes the writer produced are parsed, and writing the parsed
\* package gives the same bytes again
C2_RewriteSameBytes ==
    /\ pc = "read" => rres.outcome = "Ok"
    /\ pc = "rewritten" => (buf2.outcome = "Ok" /\ buf2.buf = buf)

\* a little-endian 32-bit field below 2^31 at offset o
U32(b, o) == b[o + 1] + 256 * b[o + 2] + 65536 * b[o + 3] + 16777216 * b[o + 4]

PayloadSize(t) == t.data.width * t.data.height * bpp(t.meta.texture_format)

RECURSIVE PayloadsBefore(_, _)
PayloadsBefore(p, i) == IF i <= 1 THEN 0 ELSE PayloadsBefore(p, i - 1) + PayloadSize(p[i - 1])

\* C6: the written buffer holds the count at 0, 0x20 at 4, a 32-byte header
\* region, record i at 0x20 + 36 i with the raster's width and height and a
\* data pointer of 0x20 + 36 n + the payload sizes before it, and is
\* 32 + 36 n + all payload sizes long
C6_Layout ==
    pc = "written" =>
        LET n == Len(tp)
        IN /\ wres.outcome = "Ok"
           /\ U32(buf, 0) = n
           /\ U32(buf, 4) = 32
           /\ Len(buf) = 32 + 36 * n + PayloadsBefore(tp, n + 1)
           /\ \A i \in 1..n :
                 /\ U32(buf, 32 + 36 * (i - 1) + 4) = tp[i].data.width
                 /\ U32(buf, 32 + 36 * (i - 1) + 8) = tp[i].data.height
                 /\ U32(buf, 32 + 36 * (i - 1) + 32) = 32 + 36 * n + PayloadsBefore(tp, i)

---------------------------------------------------------------------------
(* Properties of the pixel codec (SpecCodec) *)

Distance(a, b) == IF a < b THEN b - a ELSE a - b

\* C3: a channel packed by the writer and unpacked by the reader differs from
\* the original by at most the step of its bit depth, 255 / max: 8 for 5 bits
C3_WithinStep ==
    pc = "decoded" =>
        Distance(codec.pix[codec.channel], wres.pix[codec.channel])
            <= 255 \div ChannelMax(codec.format, codec.channel)

---------------------------------------------------------------------------
(* Properties of the writer's sizes (SpecSize) *)

\* width * height * bpp is above 2^32 - 1
PayloadTooBig(t) ==
    /\ t.data.width > 0
    /\ t.data.height > (2147483647 \div (bpp(t.meta.texture_format) \div 2)) \div t.data.width

\* sizes and offsets are even: halves stay below 2^31
HalfSize(t) == t.data.width * t.data.height * (bpp(t.meta.texture_format) \div 2)

\* some payload size, or the data pointer of some texture after place i, is
\* above 2^32 - 1; half is half the data pointer of place i
RECURSIVE SizesOverflow(_, _, _)
SizesOverflow(p, i, half) ==
    IF i > Len(p) THEN FALSE
    ELSE \/ PayloadTooBig(p[i])
         \/ (i < Len(p) /\ HalfSize(p[i]) > 2147483647 - half)
         \/ SizesOverflow(p, i + 1, half + HalfSize(p[i]))

\* C5: when a payload size or a payload offset does not fit 32 bits the writer
\* returns the error UnsupportedDimensions
C5_UnsupportedDimensions ==
    (pc = "sized" /\ SizesOverflow(tp, 1, 16 + 18 * Len(tp))) =>
        (wres.outcome = "Err" /\ wres.err = "UnsupportedDimensions")

---------------------------------------------------------------------------
(* Properties of the reader on damaged containers (SpecRead) *)

\* C4: the reader never panics; a failure yields no package, and a container
\* cut short fails as malformed (an I/O error of the parse)
C4_NeverCrashes ==
    pc = "read" =>
        /\ rres.outcome \in {"Ok", "Err"}
        /\ rres.outcome = "Err" => rres.textures = <<>>
        /\ Len(buf) < Len(wres.buf) => (rres.outcome = "Err" /\ rres.err = "Io")

\* the 32-bit field at offset o is there and below 65536
Small(b, o) == o + 4 <= Len(b) /\ b[o + 3] = 0 /\ b[o + 4] = 0

Val16(b, o) == b[o + 1] + 256 * b[o + 2]

\* offset of header record i (from 0) of a container whose table pointer is small
RecordOffset(b, i) == Val16(b, 4) + 36 * i

\* record i is whole, its format is one of the four and its payload lies in
\* the buffer
GoodRecord(b, i) ==
    LET r == RecordOffset(b, i)
    IN /\ r + 36 <= Len(b)
       /\ Small(b, r + 4) /\ Small(b, r + 8) /\ Small(b, r + 28) /\ Small(b, r + 32)
       /\ Val16(b, r + 28) \in 0..3
       /\ Val16(b, r + 32) + Val16(b, r + 4) * Val16(b, r + 8)
             * (IF Val16(b, r + 28) = 3 THEN 4 ELSE 2) <= Len(b)

\* record i is one of the texture_count records, the records before it are
\* good, and its format field is there and is none of 0, 1, 2, 3
BadFormatAt(b, i) ==
    /\ Len(b) >= 8
    /\ Small(b, 4)
    /\ ~(Small(b, 0) /\ Val16(b, 0) <= i)
    /\ \A j \in 0..(i - 1) : GoodRecord(b, j)
    /\ RecordOffset(b, i) + 32 <= Len(b)
    /\ ~(Small(b, RecordOffset(b, i) + 28) /\ Val16(b, RecordOffset(b, i) + 28) \in 0..3)

\* C7: when the reader comes to a header record whose format field is none of
\* 0, 1, 2, 3 it fails with the unknown-format error (no variant matches),
\* returns no package and does not follow that record's payload pointer
C7_UnknownFormat ==
    pc = "read" =>
        \A i \in 0..(Len(buf) \div 36) :
            BadFormatAt(buf, i) =>
                /\ rres.outcome = "Err"
                /\ rres.err = "NoVariantMatch"
                /\ rres.textures = <<>>
                /\ i \notin rres.derefs

\* the second record has format 4 or another unknown value; the first was
\* parsed and its payload decoded
C7_Witness ==
    /\ pc = "read"
    /\ BadFormatAt(buf, 1)
    /\ rres.err = "NoVariantMatch"
    /\ rres.derefs = {0}

\* the canonical pixel (x, y) of a w x h texture of format number f whose
\* payload starts at ptr: taken from column x of stored row h-1-y
StoredPixel(b, ptr, w, h, f, x, y) ==
    LET slot == (h - 1 - y) * w + x
        word == b[ptr + 2 * slot + 1] + 256 * b[ptr + 2 * slot + 2]
    IN CASE f = 0 -> <<(((word \div 2048) % 32) * 255) \div 31,
                       (((word \div 64) % 32) * 255) \div 31,
                       (((word \div 2) % 32) * 255) \div 31,
                       (word % 2) * 255>>
         [] f = 1 -> <<(((word \div 4096) % 16) * 255) \div 15,
                       (((word \div 256) % 16) * 255) \div 15,
                       (((word \div 16) % 16) * 255) \div 15,
                       ((word % 16) * 255) \div 15>>
         [] f = 2 -> <<(((word \div 2048) % 32) * 255) \div 31,
                       (((word \div 32) % 64) * 255) \div 63,
                       ((word % 32) * 255) \div 31,
                       255>>
         [] f = 3 -> <<b[ptr + 4 * slot + 1], b[ptr + 4 * slot + 2],
                       b[ptr + 4 * slot + 3], b[ptr + 4 * slot + 4]>>

\* C9: every pixel (x, y) the reader returns is the stored pixel at column x of
\* row h-1-y, its channels the bit fields of the little-endian word scaled by
\* 255 / (2^n - 1) with integer division, R8G8B8A8 copied byte for byte
C9_DecodedPixels ==
    (pc = "read" /\ rres.outcome = "Ok") =>
        \A i \in 1..Len(rres.textures) :
            LET r == U32(buf, 4) + 36 * (i - 1)
                w == U32(buf, r + 4)
                h == U32(buf, r + 8)
                img == rres.textures[i].data
            IN /\ img.width = w
               /\ img.height = h
               /\ \A x \in 0..(w - 1), y \in 0..(h - 1) :
                     PixelAt(img, x, y)
                        = StoredPixel(buf, U32(buf, r + 32), w, h, U32(buf, r + 28), x, y)

\* a container with an R5G5B5A1 and an R5G6B5 texture was read after the word
\* 0x8001 was stored in the last row of the first payload: it is the red of the
\* first canonical row
C9_Witness ==
    /\ pc = "read"
    /\ rres.outcome = "Ok"
    /\ Len(rres.textures) = 2
    /\ rres.textures[1].meta.texture_format = "R5G5B5A1"
    /\ rres.textures[2].meta.texture_format = "R5G6B5"
    /\ rres.textures[1].data.width = 2
    /\ rres.textures[1].data.height = 2
    /\ PixelAt(rres.textures[1].data, 1, 0) = <<131, 0, 0, 255>>
    /\ PixelAt(rres.textures[1].data, 1, 1) # <<131, 0, 0, 255>>

---------------------------------------------------------------------------
(* Properties of from_directory (SpecDir) *)

\* places of the listing that hold a file with extension png
PngFiles(items) == {k \in 1..Len(items) : ~items[k].is_dir /\ items[k].ext = "png"}

\* the png at place k has no entry of the same stem with extension json
NoSidecar(items, k) ==
    \A j \in 1..Len(items) : ~(items[j].stem = items[k].stem /\ items[j].ext = "json")

\* the png at place k has a sidecar, but the sidecar is a directory or no
\* metadata text, or the png is no image
Unloadable(items, k) ==
    /\ ~NoSidecar(items, k)
    /\ \/ items[k].content.kind # "png"
       \/ \E j \in 1..Len(items) :
             /\ items[j].stem = items[k].stem
             /\ items[j].ext = "json"
             /\ (items[j].is_dir \/ items[j].content.kind # "json")

---------------------------------------------------------------------------
(* Properties of Extract (SpecExtract) *)

\* the number a file stem spells in lowercase hexadecimal
RECURSIVE HexValue(_, _)
HexValue(stem, k) ==
    IF k = 0 THEN 0
    ELSE 16 * HexValue(stem, k - 1)
         + (CHOOSE d \in 0..15 : HexDigits[d + 1] = stem[k])

\* the last place of the package that holds a texture with that id
LastWith(p, id) ==
    CHOOSE i \in 1..Len(p) : p[i].meta.id = id /\ \A j \in (i + 1)..Len(p) : p[j].meta.id # id

====
